---- MODULE Spec2Model ----
(***************************************************************************)
(* Model of the renderer process of the football tracker (src/main.js,     *)
(* lines 103-682): the match loader loadTodaysMatches, its cache, the      *)
(* last-known score/status maps and the adaptive refresh scheduler of      *)
(* startAutoRefresh.                                                       *)
(*                                                                         *)
(* Instants are counted in units of 30 seconds, the greatest common        *)
(* divisor of every duration in the source (30 s, 1 min, 2 min, 3 min,     *)
(* 5 min). JavaScript runs each callback to its next await without         *)
(* interleaving, so one action is one such run: a timer callback, a click, *)
(* the arrival of one league's response, or the passing of time.           *)
(***************************************************************************)
EXTENDS Integers, Sequences, FiniteSets, TLC

\* ---------------------------------------------------------------- bounds
\* Length of the explored time line, in units of 30 s.
MaxTime == 12
\* Length of one reference-timezone day in units (a real day is 2880).
DayLen == 6

\* Length of the time line of the specification of the loader on its own.
FetchTime == 8

\* ------------------------------------------------------ program constants
CACHE_DURATION == 4
FastMs == 2
SlowMs == 10
KickoffWindow == 6
RecentFetch == 1
\* JavaScript values that are not numbers of the domain.
Null == -1
Dash == -2
EmptyDate == 0
Undefined == 0

\* The first instant of the time line, far from the epoch (Date.now() is
\* about 1.7e12 ms, so now - 0 exceeds every duration of the program).
T0 == DayLen * 10
\* 36 hours, one day and a half.
TomorrowOffset == (3 * DayLen) \div 2

leagues == <<"PL", "BL1", "CL", "PD">>
LeagueNames == {leagues[i] : i \in 1..Len(leagues)}

STATUS_MAP == [IN_PLAY |-> "LIVE", PAUSED |-> "HT", FINISHED |-> "FT",
               POSTPONED |-> "PST", CANCELED |-> "CANC", SUSPENDED |-> "SUSP"]

\* Property names every JavaScript object inherits: STATUS_MAP[status] finds
\* them on Object.prototype and yields a (truthy) function, not a code.
ObjectProtoKeys == {"constructor", "toString", "valueOf", "hasOwnProperty",
                    "isPrototypeOf", "propertyIsEnumerable", "toLocaleString",
                    "__proto__"}

VARIABLES now, phase, isLoading, cachedMatches, cachedDate, lastFetchTime,
          activeLeagues, lastKnownScores, lastKnownStatus,
          autoRefreshInterval, lastLondonDate, kickoffTimeout,
          currentIntervalMs, timers, display, batch, ev, lastCycle,
          rolledFrom

vars == <<now, phase, isLoading, cachedMatches, cachedDate, lastFetchTime,
          activeLeagues, lastKnownScores, lastKnownStatus,
          autoRefreshInterval, lastLondonDate, kickoffTimeout,
          currentIntervalMs, timers, display, batch, ev, lastCycle,
          rolledFrom>>

\* ------------------------------------------------------------ pure helpers
londonYMD(d) == d \div DayLen

todayLondonISO(t) == londonYMD(t)

tomorrowLondonISO(t) == londonYMD(t + TomorrowOffset)

mapFDStatusToShort(status) ==
    IF status \in DOMAIN STATUS_MAP THEN STATUS_MAP[status]
    ELSE IF status \in ObjectProtoKeys THEN "[function]"
    ELSE "NS"

hasLiveMatches(matches) ==
    \E k \in 1..Len(matches) : matches[k].status \in {"LIVE", "HT"}

SeqMin(S) == CHOOSE x \in S : \A y \in S : x <= y

\* ------------------------------------------------------------------ timers
\* A pending timer is [kind, h, due, ms]; h is the handle setInterval or
\* setTimeout returned. Handles are never reused while something refers to
\* them: a new handle is the least one that no pending timer has and that
\* no variable in `held` still stores.
NewHandle(ts, held) ==
    LET used == {t.h : t \in ts} \cup held
    IN  SeqMin({h \in 1..(Cardinality(used) + 1) : h \notin used})

clearTimer(ts, h) == {t \in ts : t.h # h}

NoBatch == [active |-> FALSE, caller |-> "none", today |-> EmptyDate,
            tomorrow |-> EmptyDate, now |-> 0, i |-> 0, allMatches |-> <<>>,
            totalMatches |-> 0, hasRateLimit |-> FALSE]

NoEvent == [op |-> "none", skipped |-> FALSE, reuse |-> FALSE,
            rollover |-> FALSE, stopped |-> FALSE, fetches |-> 0,
            writes |-> 0, render |-> "none", renders |-> 0,
            done |-> FALSE, ended |-> 0,
            yield |-> 0, recent |-> FALSE, branch |-> "none",
            prev |-> <<>>]

NoCycle == [start |-> 0, today |-> EmptyDate, fetched |-> FALSE,
            yield |-> 0, live |-> FALSE, reset |-> FALSE, done |-> FALSE]

\* The program state as one record, so that the handlers compose. ev,
\* lastCycle and rolledFrom are bookkeeping about the run, read by no handler:
\* ev describes the step just taken, lastCycle the latest call that passed
\* the guard, rolledFrom the day the latest rollover reset left behind.
St == [now |-> now, phase |-> phase, isLoading |-> isLoading,
       cachedMatches |-> cachedMatches, cachedDate |-> cachedDate,
       lastFetchTime |-> lastFetchTime, activeLeagues |-> activeLeagues,
       lastKnownScores |-> lastKnownScores,
       lastKnownStatus |-> lastKnownStatus,
       autoRefreshInterval |-> autoRefreshInterval,
       lastLondonDate |-> lastLondonDate, kickoffTimeout |-> kickoffTimeout,
       currentIntervalMs |-> currentIntervalMs, timers |-> timers,
       display |-> display, batch |-> batch, ev |-> NoEvent,
       lastCycle |-> lastCycle, rolledFrom |-> rolledFrom]

Apply(s) ==
    /\ now' = s.now
    /\ phase' = s.phase
    /\ isLoading' = s.isLoading
    /\ cachedMatches' = s.cachedMatches
    /\ cachedDate' = s.cachedDate
    /\ lastFetchTime' = s.lastFetchTime
    /\ activeLeagues' = s.activeLeagues
    /\ lastKnownScores' = s.lastKnownScores
    /\ lastKnownStatus' = s.lastKnownStatus
    /\ autoRefreshInterval' = s.autoRefreshInterval
    /\ lastLondonDate' = s.lastLondonDate
    /\ kickoffTimeout' = s.kickoffTimeout
    /\ currentIntervalMs' = s.currentIntervalMs
    /\ timers' = s.timers
    /\ display' = s.display
    /\ batch' = s.batch
    /\ ev' = s.ev
    /\ lastCycle' = s.lastCycle
    /\ rolledFrom' = s.rolledFrom

\* --------------------------------------------------------------- rendering
\* The page: the "no matches" popup and the list in .matches-container.
\* showNoMatchesMessage only raises the popup; displayMatches hides it and
\* replaces the list.
showNoMatchesMessage(s) ==
    [s EXCEPT !.display.popup = TRUE, !.ev.render = "empty",
              !.ev.renders = s.ev.renders + 1]

displayMatches(s, matches) ==
    [s EXCEPT !.display = [popup |-> FALSE, list |-> matches],
              !.ev.render = "matches",
              !.ev.renders = s.ev.renders + 1]

\* ---------------------------------------------------------- reconciliation
\* A raw match is [id, homeTeam, awayTeam, utcDate, status, home, away,
\* competition]; a missing id, team id or name is "", a missing score Null.
\* Object keys are strings in JavaScript, so every match id is a string.
\* `${team?.id || team?.name}`: a team with neither prints as "undefined".
teamKey(team) ==
    IF team.id # "" THEN team.id
    ELSE IF team.name # "" THEN team.name
    ELSE "undefined"

matchIdOf(m) ==
    IF m.id # "" THEN m.id
    ELSE teamKey(m.homeTeam) \o "-" \o teamKey(m.awayTeam)

normalizeNoScoreFallback(m, leagueName, scores, status) ==
    LET matchId == matchIdOf(m)
        missing == m.home = Null \/ m.away = Null
        homeScore == IF missing THEN Dash ELSE m.home
        awayScore == IF missing THEN Dash ELSE m.away
        scores2 == IF missing THEN scores
                   ELSE (matchId :> <<m.home, m.away>>) @@ scores
        mapped == mapFDStatusToShort(m.status)
        currentStatus == IF mapped = "NS"
                         THEN (IF matchId \in DOMAIN status
                               THEN status[matchId] ELSE mapped)
                         ELSE mapped
        status2 == IF mapped = "NS" THEN status
                   ELSE (matchId :> mapped) @@ status
    IN  [match |-> [league |-> IF m.competition # "" THEN m.competition
                               ELSE leagueName,
                    home |-> IF m.homeTeam.name # "" THEN m.homeTeam.name
                             ELSE "Unknown",
                    away |-> IF m.awayTeam.name # "" THEN m.awayTeam.name
                             ELSE "Unknown",
                    goalsHome |-> homeScore, goalsAway |-> awayScore,
                    date |-> m.utcDate, status |-> currentStatus],
         scores |-> scores2, status |-> status2]

normalizeFieldByField(m, leagueName, scores, status) ==
    LET matchId == matchIdOf(m)
        missing == m.home = Null \/ m.away = Null
        known == matchId \in DOMAIN scores
        homeScore == IF m.home # Null THEN m.home
                     ELSE (IF known THEN scores[matchId][1] ELSE Dash)
        awayScore == IF m.away # Null THEN m.away
                     ELSE (IF known THEN scores[matchId][2] ELSE Dash)
        scores2 == IF missing THEN scores
                   ELSE (matchId :> <<m.home, m.away>>) @@ scores
        mapped == mapFDStatusToShort(m.status)
        currentStatus == IF mapped = "NS"
                         THEN (IF matchId \in DOMAIN status
                               THEN status[matchId] ELSE mapped)
                         ELSE mapped
        status2 == IF mapped = "NS" THEN status
                   ELSE (matchId :> mapped) @@ status
    IN  [match |-> [league |-> IF m.competition # "" THEN m.competition
                               ELSE leagueName,
                    home |-> IF m.homeTeam.name # "" THEN m.homeTeam.name
                             ELSE "Unknown",
                    away |-> IF m.awayTeam.name # "" THEN m.awayTeam.name
                             ELSE "Unknown",
                    goalsHome |-> homeScore, goalsAway |-> awayScore,
                    date |-> m.utcDate, status |-> currentStatus],
         scores |-> scores2, status |-> status2]

\* Lines 247-284: one raw match against the last-known maps. The result is
\* the normalised match and the maps as the callback leaves them.
normalize(m, leagueName, scores, status) ==
    LET matchId == matchIdOf(m)
        missing == m.home = Null \/ m.away = Null
        known == matchId \in DOMAIN scores
        homeScore == IF missing
                     THEN (IF known THEN scores[matchId][1] ELSE Dash)
                     ELSE m.home
        awayScore == IF missing
                     THEN (IF known THEN scores[matchId][2] ELSE Dash)
                     ELSE m.away
        scores2 == IF missing THEN scores
                   ELSE (matchId :> <<m.home, m.away>>) @@ scores
        mapped == mapFDStatusToShort(m.status)
        currentStatus == IF mapped = "NS"
                         THEN (IF matchId \in DOMAIN status
                               THEN status[matchId] ELSE mapped)
                         ELSE mapped
        status2 == IF mapped = "NS" THEN status
                   ELSE (matchId :> mapped) @@ status
    IN  [match |-> [league |-> IF m.competition # "" THEN m.competition
                               ELSE leagueName,
                    home |-> IF m.homeTeam.name # "" THEN m.homeTeam.name
                             ELSE "Unknown",
                    away |-> IF m.awayTeam.name # "" THEN m.awayTeam.name
                             ELSE "Unknown",
                    goalsHome |-> homeScore, goalsAway |-> awayScore,
                    date |-> m.utcDate, status |-> currentStatus],
         scores |-> scores2, status |-> status2]

\* fdMatches.map(...): the matches in order, each seeing the maps as the
\* matches before it left them.
RECURSIVE normalizeAll(_, _, _, _)
normalizeAll(ms, leagueName, scores, status) ==
    IF ms = <<>> THEN [out |-> <<>>, scores |-> scores, status |-> status]
    ELSE LET r == normalize(Head(ms), leagueName, scores, status)
             rest == normalizeAll(Tail(ms), leagueName, r.scores, r.status)
         IN  [out |-> <<r.match>> \o rest.out,
              scores |-> rest.scores, status |-> rest.status]

\* A response is [kind, matches]: "429", "error" (another non-success
\* status), "netfail" (fetch rejects), "malformed" (res.json() rejects or
\* the body is not an object) or "ok" with the body's matches. A match with
\* an unparsable utcDate (Null) makes londonYMD throw inside the filter.
throwsInLeague(r) ==
    \/ r.kind \in {"netfail", "malformed"}
    \/ r.kind = "ok" /\ \E k \in 1..Len(r.matches) : r.matches[k].utcDate = Null

leagueStepUnflagged(s, r) ==
    LET b == s.batch
        leagueName == leagues[b.i]
    IN  IF r.kind \in {"429", "error"} \/ throwsInLeague(r) THEN s
        ELSE LET isToday(m) == londonYMD(m.utcDate) = b.today
                 fdMatches == SelectSeq(r.matches, isToday)
                 n == normalizeAll(fdMatches, leagueName,
                                   s.lastKnownScores, s.lastKnownStatus)
             IN  [s EXCEPT !.lastKnownScores = n.scores,
                           !.lastKnownStatus = n.status,
                           !.batch.allMatches = b.allMatches \o n.out,
                           !.batch.totalMatches = b.totalMatches + Len(n.out)]

leagueStepErrorAbandonsBatch(s, r) ==
    LET b == s.batch
        leagueName == leagues[b.i]
    IN  IF r.kind = "429" THEN [s EXCEPT !.batch.hasRateLimit = TRUE]
        ELSE IF r.kind = "error" \/ throwsInLeague(r)
        THEN [s EXCEPT !.batch.allMatches = <<>>, !.batch.totalMatches = 0]
        ELSE LET isToday(m) == londonYMD(m.utcDate) = b.today
                 fdMatches == SelectSeq(r.matches, isToday)
                 n == normalizeAll(fdMatches, leagueName,
                                   s.lastKnownScores, s.lastKnownStatus)
             IN  [s EXCEPT !.lastKnownScores = n.scores,
                           !.lastKnownStatus = n.status,
                           !.batch.allMatches = b.allMatches \o n.out,
                           !.batch.totalMatches = b.totalMatches + Len(n.out)]

leagueStepThrowEscapes(s, r) ==
    LET b == s.batch
        leagueName == leagues[b.i]
    IN  IF r.kind = "429" THEN [s EXCEPT !.batch.hasRateLimit = TRUE]
        ELSE IF r.kind = "error" THEN s
        ELSE IF throwsInLeague(r)
        THEN [s EXCEPT !.batch = NoBatch, !.isLoading = FALSE]
        ELSE LET isToday(m) == londonYMD(m.utcDate) = b.today
                 fdMatches == SelectSeq(r.matches, isToday)
                 n == normalizeAll(fdMatches, leagueName,
                                   s.lastKnownScores, s.lastKnownStatus)
             IN  [s EXCEPT !.lastKnownScores = n.scores,
                           !.lastKnownStatus = n.status,
                           !.batch.allMatches = b.allMatches \o n.out,
                           !.batch.totalMatches = b.totalMatches + Len(n.out)]

leagueStepUnfiltered(s, r) ==
    LET b == s.batch
        leagueName == leagues[b.i]
    IN  IF r.kind = "429" THEN [s EXCEPT !.batch.hasRateLimit = TRUE]
        ELSE IF r.kind = "error" \/ throwsInLeague(r) THEN s
        ELSE LET n == normalizeAll(r.matches, leagueName,
                                   s.lastKnownScores, s.lastKnownStatus)
             IN  [s EXCEPT !.lastKnownScores = n.scores,
                           !.lastKnownStatus = n.status,
                           !.batch.allMatches = b.allMatches \o n.out,
                           !.batch.totalMatches = b.totalMatches + Len(n.out)]

\* Lines 219-298, one iteration of the loop from the response on.
leagueStep(s, r) ==
    LET b == s.batch
        leagueName == leagues[b.i]
    IN  IF r.kind = "429" THEN [s EXCEPT !.batch.hasRateLimit = TRUE]
        ELSE IF r.kind = "error" \/ throwsInLeague(r) THEN s
        ELSE LET isToday(m) == londonYMD(m.utcDate) = b.today
                 fdMatches == SelectSeq(r.matches, isToday)
                 n == normalizeAll(fdMatches, leagueName,
                                   s.lastKnownScores, s.lastKnownStatus)
             IN  [s EXCEPT !.lastKnownScores = n.scores,
                           !.lastKnownStatus = n.status,
                           !.batch.allMatches = b.allMatches \o n.out,
                           !.batch.totalMatches = b.totalMatches + Len(n.out)]

cacheDecisionStaleOnlyWhenRateLimited(totalMatches, hasRateLimit, cacheToday) ==
    IF totalMatches > 0 THEN "fresh"
    ELSE IF hasRateLimit /\ cacheToday THEN "ratelimited"
    ELSE "empty"

cacheDecisionAlwaysFresh(totalMatches, hasRateLimit, cacheToday) ==
    IF totalMatches >= 0 THEN "fresh"
    ELSE IF hasRateLimit /\ cacheToday THEN "ratelimited"
    ELSE IF cacheToday THEN "stale"
    ELSE "empty"

\* Lines 302-322: which branch the end of a batch takes.
cacheDecision(totalMatches, hasRateLimit, cacheToday) ==
    IF totalMatches > 0 THEN "fresh"
    ELSE IF hasRateLimit /\ cacheToday THEN "ratelimited"
    ELSE IF cacheToday THEN "stale"
    ELSE "empty"

storeCacheMerging(s, b) ==
    [s EXCEPT !.cachedMatches = b.allMatches \o s.cachedMatches,
              !.cachedDate = b.today,
              !.lastFetchTime = b.now,
              !.ev.writes = s.ev.writes + 1]

storeCacheWithoutTime(s, b) ==
    [s EXCEPT !.cachedMatches = b.allMatches,
              !.cachedDate = b.today,
              !.ev.writes = s.ev.writes + 1]

\* Lines 304-306: the batch's matches become the cache entry.
storeCache(s, b) ==
    [s EXCEPT !.cachedMatches = b.allMatches,
              !.cachedDate = b.today,
              !.lastFetchTime = b.now,
              !.ev.writes = s.ev.writes + 1]

finishBatchHoldsGuardWhenEmpty(s) ==
    LET b == s.batch
        cacheToday == Len(s.cachedMatches) > 0 /\ s.cachedDate = b.today
        branch == cacheDecision(b.totalMatches, b.hasRateLimit, cacheToday)
        s1 == IF branch = "fresh"
              THEN displayMatches(storeCache(s, b), b.allMatches)
              ELSE IF branch \in {"ratelimited", "stale"}
              THEN displayMatches(s, s.cachedMatches)
              ELSE showNoMatchesMessage(s)
    IN  [s1 EXCEPT !.isLoading = (branch = "empty"), !.batch = NoBatch,
                   !.ev.done = TRUE, !.ev.ended = s.ev.ended + 1,
                   !.ev.yield = b.totalMatches,
                   !.ev.branch = branch,
                   !.lastCycle.yield = b.totalMatches,
                   !.lastCycle.done = TRUE]

finishBatchSilentWhenStale(s) ==
    LET b == s.batch
        cacheToday == Len(s.cachedMatches) > 0 /\ s.cachedDate = b.today
        branch == cacheDecision(b.totalMatches, b.hasRateLimit, cacheToday)
        s1 == IF branch = "fresh"
              THEN displayMatches(storeCache(s, b), b.allMatches)
              ELSE IF branch \in {"ratelimited", "stale"}
              THEN s
              ELSE showNoMatchesMessage(s)
    IN  [s1 EXCEPT !.isLoading = FALSE, !.batch = NoBatch,
                   !.ev.done = TRUE, !.ev.ended = s.ev.ended + 1,
                   !.ev.yield = b.totalMatches,
                   !.ev.branch = branch,
                   !.lastCycle.yield = b.totalMatches,
                   !.lastCycle.done = TRUE]

\* Lines 300-328: the end of a batch, once every league was attempted.
finishBatch(s) ==
    LET b == s.batch
        cacheToday == Len(s.cachedMatches) > 0 /\ s.cachedDate = b.today
        branch == cacheDecision(b.totalMatches, b.hasRateLimit, cacheToday)
        s1 == IF branch = "fresh"
              THEN displayMatches(storeCache(s, b), b.allMatches)
              ELSE IF branch \in {"ratelimited", "stale"}
              THEN displayMatches(s, s.cachedMatches)
              ELSE showNoMatchesMessage(s)
    IN  [s1 EXCEPT !.isLoading = FALSE, !.batch = NoBatch,
                   !.ev.done = TRUE, !.ev.ended = s.ev.ended + 1,
                   !.ev.yield = b.totalMatches,
                   !.ev.branch = branch,
                   !.lastCycle.yield = b.totalMatches,
                   !.lastCycle.done = TRUE]

shouldUseCacheUnlessLive(s, today) ==
    /\ Len(s.cachedMatches) > 0
    /\ s.cachedDate = today
    /\ (s.now - s.lastFetchTime) < CACHE_DURATION
    /\ ~hasLiveMatches(s.cachedMatches)

\* Lines 203-205.
shouldUseCache(s, today) ==
    /\ Len(s.cachedMatches) > 0
    /\ s.cachedDate = today
    /\ (s.now - s.lastFetchTime) < CACHE_DURATION

\* Lines 195-218: the call past its guard, up to its first await. A call
\* that starts a batch leaves it in s.batch with the first league's request
\* issued; a call that serves the cache ends at once.
loadUnguarded(s, caller) ==
    LET today == todayLondonISO(s.now)
        tomorrow == tomorrowLondonISO(s.now)
        reuse == shouldUseCache(s, today)
        cyc == [start |-> s.now, today |-> today, fetched |-> ~reuse,
                yield |-> 0, live |-> hasLiveMatches(s.cachedMatches),
                reset |-> s.ev.rollover, done |-> reuse]
        s0 == [s EXCEPT !.ev.prev = <<s.lastCycle>>, !.lastCycle = cyc]
    IN  IF reuse
        THEN [displayMatches(s0, s0.cachedMatches)
                EXCEPT !.ev.reuse = TRUE, !.ev.done = TRUE,
                       !.ev.ended = s.ev.ended + 1,
                       !.ev.branch = "reuse"]
        ELSE [s0 EXCEPT !.isLoading = TRUE,
                        !.ev.fetches = s.ev.fetches + 1,
                        !.batch = [active |-> TRUE, caller |-> caller,
                                   today |-> today, tomorrow |-> tomorrow,
                                   now |-> s.now, i |-> 1,
                                   allMatches |-> <<>>, totalMatches |-> 0,
                                   hasRateLimit |-> FALSE]]

loadTodaysMatchesNoGuard(s, caller) == loadUnguarded(s, caller)

\* Lines 190-196: the in-flight guard.
loadTodaysMatches(s, caller) ==
    IF s.isLoading THEN [s EXCEPT !.ev.skipped = TRUE]
    ELSE loadUnguarded(s, caller)

\* --------------------------------------------------------------- scheduler
resetDailyStateKeepsTime(s) ==
    [s EXCEPT !.cachedMatches = <<>>, !.cachedDate = EmptyDate,
              !.activeLeagues = LeagueNames]

resetDailyStateKeepsDate(s) ==
    [s EXCEPT !.cachedMatches = <<>>, !.lastFetchTime = 0,
              !.activeLeagues = LeagueNames]

resetDailyStateClearsFacts(s) ==
    [s EXCEPT !.cachedMatches = <<>>, !.cachedDate = EmptyDate,
              !.lastFetchTime = 0, !.activeLeagues = LeagueNames,
              !.lastKnownScores = <<>>, !.lastKnownStatus = <<>>]

\* Lines 117-123.
resetDailyState(s) ==
    [s EXCEPT !.cachedMatches = <<>>, !.cachedDate = EmptyDate,
              !.lastFetchTime = 0, !.activeLeagues = LeagueNames]

adjustIntervalAlwaysRearms(s, ms) ==
    LET ts == IF s.autoRefreshInterval # Undefined
              THEN clearTimer(s.timers, s.autoRefreshInterval)
              ELSE s.timers
        h == NewHandle(ts, {s.kickoffTimeout})
    IN  [s EXCEPT !.timers = ts \cup {[kind |-> "interval", h |-> h,
                                       due |-> s.now + ms, ms |-> ms]},
                  !.autoRefreshInterval = h,
                  !.currentIntervalMs = ms]

\* Lines 586-592.
adjustInterval(s, ms) ==
    IF s.currentIntervalMs = ms /\ s.autoRefreshInterval # Undefined THEN s
    ELSE LET ts == IF s.autoRefreshInterval # Undefined
                   THEN clearTimer(s.timers, s.autoRefreshInterval)
                   ELSE s.timers
             h == NewHandle(ts, {s.kickoffTimeout})
         IN  [s EXCEPT !.timers = ts \cup {[kind |-> "interval", h |-> h,
                                            due |-> s.now + ms, ms |-> ms]},
                       !.autoRefreshInterval = h,
                       !.currentIntervalMs = ms]

scheduleKickoffRefreshNoCancel(s, matches) ==
    LET ts == s.timers
        soon == {matches[k].date : k \in
                   {j \in 1..Len(matches) :
                      /\ matches[j].status = "NS"
                      /\ matches[j].date - s.now > 0
                      /\ matches[j].date - s.now <= KickoffWindow}}
    IN  IF soon # {} /\ SeqMin(soon) - s.now > 0
        THEN LET h == NewHandle(ts, {s.autoRefreshInterval})
             IN  [s EXCEPT !.timers = ts \cup {[kind |-> "timeout", h |-> h,
                                                due |-> SeqMin(soon),
                                                ms |-> 0]},
                           !.kickoffTimeout = h]
        ELSE [s EXCEPT !.timers = ts]

scheduleKickoffRefreshFirstListed(s, matches) ==
    LET ts == IF s.kickoffTimeout # Undefined
              THEN clearTimer(s.timers, s.kickoffTimeout)
              ELSE s.timers
        soon == {j \in 1..Len(matches) :
                   /\ matches[j].status = "NS"
                   /\ matches[j].date - s.now > 0
                   /\ matches[j].date - s.now <= KickoffWindow}
    IN  IF soon # {}
        THEN LET h == NewHandle(ts, {s.autoRefreshInterval})
             IN  [s EXCEPT !.timers = ts \cup {[kind |-> "timeout", h |-> h,
                                                due |-> matches[SeqMin(soon)].date,
                                                ms |-> 0]},
                           !.kickoffTimeout = h]
        ELSE [s EXCEPT !.timers = ts]

\* Lines 594-624.
scheduleKickoffRefresh(s, matches) ==
    LET ts == IF s.kickoffTimeout # Undefined
              THEN clearTimer(s.timers, s.kickoffTimeout)
              ELSE s.timers
        soon == {matches[k].date : k \in
                   {j \in 1..Len(matches) :
                      /\ matches[j].status = "NS"
                      /\ matches[j].date - s.now > 0
                      /\ matches[j].date - s.now <= KickoffWindow}}
    IN  IF soon # {} /\ SeqMin(soon) - s.now > 0
        THEN LET h == NewHandle(ts, {s.autoRefreshInterval})
             IN  [s EXCEPT !.timers = ts \cup {[kind |-> "timeout", h |-> h,
                                                due |-> SeqMin(soon),
                                                ms |-> 0]},
                           !.kickoffTimeout = h]
        ELSE [s EXCEPT !.timers = ts]

hasUpcomingSoonStrictlyAhead(s) ==
    \E k \in 1..Len(s.cachedMatches) :
        /\ s.cachedMatches[k].status = "NS"
        /\ s.cachedMatches[k].date - s.now > KickoffWindow \div 2
        /\ s.cachedMatches[k].date - s.now <= KickoffWindow

\* Lines 655-660.
hasUpcomingSoon(s) ==
    \E k \in 1..Len(s.cachedMatches) :
        /\ s.cachedMatches[k].status = "NS"
        /\ s.cachedMatches[k].date - s.now >= 0
        /\ s.cachedMatches[k].date - s.now <= KickoffWindow

tickTailKeepsInterval(s) ==
    IF Len(s.cachedMatches) = 0
    THEN LET t2 == IF s.kickoffTimeout # Undefined
                   THEN clearTimer(s.timers, s.kickoffTimeout)
                   ELSE s.timers
         IN  [s EXCEPT !.timers = t2, !.ev.stopped = TRUE]
    ELSE LET ms == IF hasLiveMatches(s.cachedMatches) \/ hasUpcomingSoon(s)
                   THEN FastMs ELSE SlowMs
             s1 == adjustInterval(s, ms)
         IN  scheduleKickoffRefresh(s1, s1.cachedMatches)

\* Lines 647-668: tick from the return of loadTodaysMatches on.
tickTail(s) ==
    IF Len(s.cachedMatches) = 0
    THEN LET t1 == IF s.autoRefreshInterval # Undefined
                   THEN clearTimer(s.timers, s.autoRefreshInterval)
                   ELSE s.timers
             t2 == IF s.kickoffTimeout # Undefined
                   THEN clearTimer(t1, s.kickoffTimeout)
                   ELSE t1
         IN  [s EXCEPT !.timers = t2, !.ev.stopped = TRUE]
    ELSE LET ms == IF hasLiveMatches(s.cachedMatches) \/ hasUpcomingSoon(s)
                   THEN FastMs ELSE SlowMs
             s1 == adjustInterval(s, ms)
         IN  scheduleKickoffRefresh(s1, s1.cachedMatches)

\* Lines 626-645: tick up to the await of loadTodaysMatches; the rest runs
\* at once when the call was skipped or served the cache, and when the
\* batch it started ends otherwise.
tick(s) ==
    LET currentLondonDate == todayLondonISO(s.now)
        s1 == IF currentLondonDate # s.lastLondonDate
              THEN [resetDailyState(s) EXCEPT
                      !.lastLondonDate = currentLondonDate,
                      !.timers = IF s.kickoffTimeout # Undefined
                                 THEN clearTimer(s.timers, s.kickoffTimeout)
                                 ELSE s.timers,
                      !.ev.rollover = TRUE,
                      !.rolledFrom = s.lastLondonDate]
              ELSE s
        s2 == loadTodaysMatches(s1, "tick")
    IN  IF s2.ev.skipped \/ s2.ev.reuse THEN tickTail(s2) ELSE s2

\* Lines 581-584 and 671.
startAutoRefresh(s) ==
    tick([s EXCEPT !.lastLondonDate = todayLondonISO(s.now),
                   !.kickoffTimeout = Undefined,
                   !.currentIntervalMs = 0])

\* What runs when the batch of `caller` has ended: the rest of tick, the
\* rest of initializeApp (lines 167-168), or nothing after a click.
afterBatch(s, caller) ==
    IF caller = "tick" THEN tickTail(s)
    ELSE IF caller = "init" THEN startAutoRefresh([s EXCEPT !.phase = "running"])
    ELSE s

\* String(key ?? '').trim() on a key [present, text]: present is FALSE when
\* the IPC call yields null or undefined, text is a sequence of characters.
RECURSIVE trimStart(_)
trimStart(k) == IF k # <<>> /\ Head(k) = " " THEN trimStart(Tail(k)) ELSE k

RECURSIVE trimEnd(_)
trimEnd(k) ==
    IF k # <<>> /\ k[Len(k)] = " " THEN trimEnd(SubSeq(k, 1, Len(k) - 1)) ELSE k

withoutTrim(k) == IF k.present THEN k.text ELSE <<>>

trim(k) == trimEnd(trimStart(IF k.present THEN k.text ELSE <<>>))

\* ------------------------------------------------------------------ inputs
\* The provider's fixtures: one Premier League match on the first day of
\* the time line and one Bundesliga match on the second.
KickoffA == T0 + 3
KickoffB == T0 + DayLen + 2

Fixture(id, h, a, comp, date, status, home, away) ==
    [id |-> id, homeTeam |-> [id |-> h, name |-> "T" \o h],
     awayTeam |-> [id |-> a, name |-> "T" \o a], competition |-> comp,
     utcDate |-> date, status |-> status, home |-> home, away |-> away]

\* What the provider may report for a fixture: not started without scores,
\* or in play / finished with a score.
Reports(statuses) ==
    {<<st, IF st = "TIMED" THEN <<Null, Null>> ELSE <<1, 0>>>> : st \in statuses}

RawMatches(l) ==
    IF l = "PL"
    THEN {Fixture("101", "1", "2", "Premier League", KickoffA,
                  r[1], r[2][1], r[2][2]) :
            r \in Reports({"TIMED", "IN_PLAY", "FINISHED"})}
    ELSE IF l = "BL1"
    THEN {Fixture("202", "3", "4", "Bundesliga", KickoffB,
                  r[1], r[2][1], r[2][2]) :
            r \in Reports({"TIMED", "IN_PLAY"})}
    ELSE {}

Responses(l) ==
    {[kind |-> k, matches |-> <<>>] :
        k \in {"429", "error", "netfail", "malformed", "ok"}}
    \cup {[kind |-> "ok", matches |-> <<m>>] : m \in RawMatches(l)}

Keys == {[present |-> FALSE, text |-> <<>>]}
        \cup {[present |-> TRUE, text |-> x] : x \in {<<>>, <<" ">>, <<"k">>}}

\* ----------------------------------------------------------------- actions
Init ==
    /\ now = T0
    /\ phase = "boot"
    /\ isLoading = FALSE
    /\ cachedMatches = <<>>
    /\ cachedDate = EmptyDate
    /\ lastFetchTime = 0
    /\ activeLeagues = LeagueNames
    /\ lastKnownScores = <<>>
    /\ lastKnownStatus = <<>>
    /\ autoRefreshInterval = Undefined
    /\ lastLondonDate = EmptyDate
    /\ kickoffTimeout = Undefined
    /\ currentIntervalMs = 0
    /\ timers = {}
    /\ display = [popup |-> FALSE, list |-> <<>>]
    /\ batch = NoBatch
    /\ ev = NoEvent
    /\ lastCycle = NoCycle
    /\ rolledFrom = EmptyDate

\* Lines 157-173.
initializeApp(key) ==
    /\ phase = "boot"
    /\ LET s == [St EXCEPT !.ev = [key |-> key]
                                  @@ [NoEvent EXCEPT !.op = "init"]]
       IN  IF trim(key) = <<>>
           THEN Apply([showNoMatchesMessage(s) EXCEPT !.phase = "nokey"])
           ELSE Apply([loadTodaysMatches(s, "init") EXCEPT !.phase = "initload"])

\* The recurring timer fires: setInterval(tick, ms), line 589.
TimerFire ==
    \E t \in timers :
        /\ t.kind = "interval"
        /\ t.due <= now
        /\ LET s == [St EXCEPT !.ev.op = "tick",
                               !.timers = (timers \ {t}) \cup
                                          {[t EXCEPT !.due = t.due + t.ms]}]
           IN  Apply(tick(s))

\* The kickoff one-shot fires: lines 613-621.
KickoffFire ==
    \E t \in timers :
        /\ t.kind = "timeout"
        /\ t.due <= now
        /\ LET s == [St EXCEPT !.ev.op = "kickoff", !.timers = timers \ {t}]
           IN  IF s.now - s.lastFetchTime > RecentFetch
               THEN Apply(tick(s))
               ELSE Apply([s EXCEPT !.ev.recent = TRUE])

\* A click on the refresh button: lines 571-575.
ManualRefresh ==
    /\ phase = "running"
    /\ Apply(loadTodaysMatches([St EXCEPT !.ev.op = "click"], "click"))

\* The response of the league being fetched arrives (or its request fails).
Response ==
    /\ batch.active
    /\ \E r \in Responses(leagues[batch.i]) :
          LET s1 == leagueStep([St EXCEPT !.ev.op = "resp"], r)
          IN  IF batch.i < Len(leagues)
              THEN Apply([s1 EXCEPT !.batch.i = batch.i + 1,
                                    !.ev.fetches = 1])
              ELSE Apply(afterBatch(finishBatch(s1), batch.caller))

\* Time passes; a timer that is due fires before time moves on.
AdvanceTime ==
    /\ now < T0 + MaxTime
    /\ \A t \in timers : t.due > now
    /\ Apply([St EXCEPT !.now = now + 1, !.ev.op = "time"])

Next ==
    \/ \E key \in Keys : initializeApp(key)
    \/ TimerFire
    \/ KickoffFire
    \/ ManualRefresh
    \/ Response
    \/ AdvanceTime

Spec == Init /\ [][Next]_vars

\* ------------------------------------------- two kickoffs on the same day
\* A third specification for the scheduler: the program of Spec with a
\* provider that lists two fixtures of the first day, the later league's
\* kicking off first and the other one more than a cache lifetime after
\* the start, and that answers with a body or with 429.
KickoffC == KickoffA + 2

DayResponses(l) ==
    {[kind |-> k, matches |-> <<>>] : k \in {"429", "ok"}}
    \cup {[kind |-> "ok", matches |-> <<m>>] :
            m \in (IF l = "PL"
                   THEN {Fixture("101", "1", "2", "Premier League", KickoffC,
                                 r[1], r[2][1], r[2][2]) :
                           r \in Reports({"TIMED", "IN_PLAY"})}
                   ELSE IF l = "CL"
                   THEN {Fixture("303", "5", "6", "Champions League",
                                 KickoffA, "TIMED", Null, Null)}
                   ELSE {})}

DayResponse ==
    /\ batch.active
    /\ \E r \in DayResponses(leagues[batch.i]) :
          LET s1 == leagueStep([St EXCEPT !.ev.op = "resp"], r)
          IN  IF batch.i < Len(leagues)
              THEN Apply([s1 EXCEPT !.batch.i = batch.i + 1,
                                    !.ev.fetches = 1])
              ELSE Apply(afterBatch(finishBatch(s1), batch.caller))

DayNext ==
    \/ \E key \in Keys : initializeApp(key)
    \/ TimerFire
    \/ KickoffFire
    \/ ManualRefresh
    \/ DayResponse
    \/ AdvanceTime

DaySpec == Init /\ [][DayNext]_vars

\* ------------------------------------------------- the loader on its own
\* A second specification for the loader and the reconciliation, with the
\* provider answering anything the loop can meet. It starts where a start-up
\* on a day without matches ends: the initial batch and the first tick's
\* batch found nothing, so tick stopped both timers (lines 647-652) and
\* only the refresh button starts a batch from then on.
FetchInit ==
    /\ now = T0
    /\ phase = "running"
    /\ isLoading = FALSE
    /\ cachedMatches = <<>>
    /\ cachedDate = EmptyDate
    /\ lastFetchTime = 0
    /\ activeLeagues = LeagueNames
    /\ lastKnownScores = <<>>
    /\ lastKnownStatus = <<>>
    /\ autoRefreshInterval = Undefined
    /\ lastLondonDate = todayLondonISO(T0)
    /\ kickoffTimeout = Undefined
    /\ currentIntervalMs = 0
    /\ timers = {}
    /\ display = [popup |-> TRUE, list |-> <<>>]
    /\ batch = NoBatch
    /\ ev = NoEvent
    /\ lastCycle = NoCycle
    /\ rolledFrom = EmptyDate

\* Status codes of the provider: missing or blank (""), unmapped ("TIMED"),
\* mapped, and a name that every object inherits.
FeedStatuses == {"", "TIMED", "IN_PLAY", "FINISHED", "constructor"}

\* score.fullTime of the provider: absent, half present, present.
FeedScores == {<<Null, Null>>, <<2, Null>>, <<1, 0>>, <<2, 1>>}

\* A fixture without id whose teams have neither id nor name.
Anonymous(date, status, home, away) ==
    [id |-> "", homeTeam |-> [id |-> "", name |-> ""],
     awayTeam |-> [id |-> "", name |-> ""], competition |-> "",
     utcDate |-> date, status |-> status, home |-> home, away |-> away]

\* Premier League: the fixture "101" of the first day in every report, two
\* anonymous fixtures, an unparsable date.
FeedPL ==
    {<<Fixture("101", "1", "2", "Premier League", KickoffA,
               st, sc[1], sc[2])>> : st \in FeedStatuses, sc \in FeedScores}
    \cup {<<Anonymous(KickoffA, "", Null, Null),
            Anonymous(KickoffA + 1, "PAUSED", 1, 0)>>,
          <<Fixture("101", "1", "2", "Premier League", Null,
                    "IN_PLAY", 1, 0)>>}

\* Bundesliga: three fixtures of the first day, alone or followed by one
\* of the second day (the request asks for today and tomorrow).
FeedBL1 ==
    LET three == <<Fixture("201", "3", "4", "Bundesliga", KickoffA,
                           "FINISHED", 2, 1),
                   Fixture("202", "5", "6", "Bundesliga", KickoffA + 1,
                           "IN_PLAY", 1, 0),
                   Fixture("203", "7", "8", "Bundesliga", KickoffA + 2,
                           "TIMED", Null, Null)>>
    IN  {three,
         three \o <<Fixture("204", "3", "5", "Bundesliga", KickoffB,
                            "TIMED", Null, Null)>>}

Feed(l) ==
    {[kind |-> k, matches |-> <<>>] :
        k \in {"429", "error", "netfail", "malformed", "ok"}}
    \cup {[kind |-> "ok", matches |-> ms] :
            ms \in (IF l = "PL" THEN FeedPL
                    ELSE IF l = "BL1" THEN FeedBL1 ELSE {})}

\* Bookkeeping of one iteration of the loop: the league, the response, the
\* matches the iteration added to the batch, whether it left the try block
\* by its catch, and hasRateLimit as the iteration leaves it.
FetchEvent(l, r) ==
    [league |-> l, kind |-> r.kind, raw |-> r.matches, out |-> <<>>,
     caught |-> throwsInLeague(r), limited |-> FALSE]
    @@ [NoEvent EXCEPT !.op = "resp"]

\* Lines 219-329 with the provider of Feed.
FetchResponse ==
    /\ batch.active
    /\ \E r \in Feed(leagues[batch.i]) :
          LET s0 == [St EXCEPT !.ev = FetchEvent(leagues[batch.i], r)]
              s1 == leagueStep(s0, r)
              s2 == [s1 EXCEPT !.ev.out =
                                  SubSeq(s1.batch.allMatches,
                                         Len(batch.allMatches) + 1,
                                         Len(s1.batch.allMatches)),
                               !.ev.limited = s1.batch.hasRateLimit]
          IN  IF batch.i < Len(leagues)
              THEN Apply([s2 EXCEPT !.batch.i = batch.i + 1,
                                    !.ev.fetches = 1])
              ELSE Apply(afterBatch(finishBatch(s2), batch.caller))

\* Time passes (no timer is pending in this specification).
FetchAdvance ==
    /\ now < T0 + FetchTime
    /\ Apply([St EXCEPT !.now = now + 1, !.ev.op = "time"])

FetchNext ==
    \/ ManualRefresh
    \/ FetchResponse
    \/ FetchAdvance

FetchSpec == FetchInit /\ [][FetchNext]_vars

\* ================================================================= claims
cacheFields == <<cachedMatches, cachedDate, lastFetchTime>>

\* An event of a handler that calls loadTodaysMatches.
callerOps == {"click", "tick", "kickoff"}

\* C1: a call to loadTodaysMatches made while a batch is in flight (isLoading
\* is set) issues no transport call, writes no cache field, renders nothing
\* and leaves the batch in flight as it is.
C1_GuardedCallIsInert ==
    [][(isLoading /\ ev'.op \in callerOps) =>
          /\ ev'.fetches = 0
          /\ ev'.writes = 0
          /\ ev'.render = "none"
          /\ UNCHANGED <<batch, display, isLoading>>
          /\ (ev'.op = "click" => UNCHANGED cacheFields)]_vars

C1_Witness ==
    /\ ev.op = "click" /\ ev.skipped
    /\ batch.active /\ batch.i > 1 /\ cachedMatches # <<>>

\* What of the schedule a firing of the recurring timer does not change by
\* itself: the timers pending, whatever their handles, and of the
\* recurring timer its period.
pendingShape(ts) ==
    {IF t.kind = "interval" THEN <<t.kind, t.ms>> ELSE <<t.kind, t.due>> :
       t \in ts}

\* C2: a tick of the recurring timer that fires while a batch is in flight
\* leaves the recurring timer, the pending one-shot, the interval value and
\* the cache as they were.
C2_SkippedTickIsNoOp ==
    [][(isLoading /\ ev'.op = "tick") =>
          /\ pendingShape(timers') = pendingShape(timers)
          /\ UNCHANGED currentIntervalMs
          /\ UNCHANGED cacheFields]_vars

recurringArmed ==
    \E t \in timers : t.kind = "interval" /\ t.h = autoRefreshInterval

\* C3: after a tick was skipped by the in-flight guard the recurring timer
\* is still armed, so the skipped attempt is retried by a later tick.
C3_SkippedTickKeepsTimer ==
    (ev.op = "tick" /\ ev.skipped) => recurringArmed

cycleStarted == ev.prev # <<>> /\ ev.prev[1].start # 0

closeCycles ==
    /\ cycleStarted
    /\ ev.prev[1].fetched
    /\ lastCycle.start - ev.prev[1].start < CACHE_DURATION
    /\ lastCycle.today = ev.prev[1].today
    /\ ~ev.prev[1].live /\ ~lastCycle.live

\* C5 as stated: of two fetch cycles started less than CACHE_DURATION apart
\* on the same date with no live match, the first one having fetched, the
\* second performs no transport call.
C5_SecondCycleNeverFetches ==
    closeCycles => (~lastCycle.fetched /\ ev.fetches = 0)

\* C5 amended: the same, provided the first cycle's batch yielded at least
\* one match and the second cycle is not a tick that has just performed the
\* day-rollover reset.
C5_SecondCycleReusesStoredBatch ==
    (closeCycles /\ ev.prev[1].yield > 0 /\ ~lastCycle.reset) =>
        (~lastCycle.fetched /\ ev.fetches = 0 /\ ev.reuse)

C5_Witness ==
    /\ closeCycles /\ ev.prev[1].yield > 0 /\ ~lastCycle.reset
    /\ ev.op = "click" /\ ev.reuse
    /\ lastCycle.start > ev.prev[1].start

\* The end of a batch, seen from the state before its last response.
batchEnds == batch.active /\ ev'.op = "resp" /\ ev'.done

cacheForBatchDay == Len(cachedMatches) > 0 /\ cachedDate = batch.today

\* C6: when a batch yields zero matches and a non-empty cache entry dated
\* today exists, the cached matches are rendered and the empty state is not
\* shown, whether or not a league was rate-limited.
C6_StaleCacheServed ==
    [][(batchEnds /\ ev'.yield = 0 /\ cacheForBatchDay) =>
          /\ ev'.render = "matches"
          /\ display'.list = cachedMatches
          /\ ~display'.popup
          /\ ev'.branch \in {"ratelimited", "stale"}
          /\ UNCHANGED cacheFields]_vars

C6_Witness ==
    /\ ev.op = "resp" /\ ev.done /\ ev.yield = 0
    /\ ev.branch = "stale" /\ ev.render = "matches"
    /\ display.list = cachedMatches /\ cachedMatches # <<>>

C6_WitnessRateLimited ==
    /\ ev.op = "resp" /\ ev.done /\ ev.yield = 0
    /\ ev.branch = "ratelimited" /\ ev.render = "matches"

\* C7: a fetch cycle shows the "no matches" state only when its batch
\* yielded zero matches and no non-empty cache entry dated today exists; every
\* other completed cycle renders a match list.
C7_EmptyOnlyWithoutCache ==
    [][/\ batchEnds =>
            IF ev'.yield = 0 /\ ~cacheForBatchDay
            THEN ev'.render = "empty" /\ display'.popup
            ELSE ev'.render = "matches" /\ ~display'.popup
                 /\ display'.list = cachedMatches'
       /\ (ev'.op \in callerOps /\ ev'.reuse) =>
            ev'.render = "matches" /\ ~display'.popup]_vars

C7_Witness ==
    /\ ev.op = "resp" /\ ev.done /\ ev.yield = 0 /\ ev.branch = "empty"
    /\ display.popup /\ cachedMatches # <<>> /\ phase = "running"

C9_FactsNeverDeleted ==
    [][/\ DOMAIN lastKnownScores \subseteq DOMAIN lastKnownScores'
       /\ DOMAIN lastKnownStatus \subseteq DOMAIN lastKnownStatus']_vars

C9_Witness ==
    /\ ev.rollover /\ ev.op = "tick"
    /\ "101" \in DOMAIN lastKnownStatus /\ "101" \in DOMAIN lastKnownScores
    /\ londonYMD(KickoffA) < lastLondonDate

\* C10: once a tick has processed the rollover from a day D to the next
\* (rolledFrom = D), the cache never again holds an entry dated D.
C10_NoEntryOfTheDayRolledFrom ==
    rolledFrom # EmptyDate => cachedDate # rolledFrom

\* A step of FetchSpec that handles one league's response.
fetchStep == batch.active /\ ev'.op = "resp"

\* C11: a league answered with 429 raises the batch's rate-limit flag, which
\* stays raised to the end of the batch, adds no match and removes none,
\* raises no exception, and the loop goes on to the next league or, after
\* the last one, to the cache decision; a batch that ends flagged and empty
\* never takes the branch of the unflagged stale cache.
C11_RateLimitedLeagueIsNotFatal ==
    [][fetchStep =>
          /\ (ev'.kind = "429" \/ batch.hasRateLimit) => ev'.limited
          /\ ev'.kind = "429" =>
                /\ ev'.out = <<>>
                /\ ~ev'.caught
                /\ UNCHANGED <<lastKnownScores, lastKnownStatus>>
                /\ IF batch.i < Len(leagues)
                   THEN /\ batch' = [batch EXCEPT !.i = batch.i + 1,
                                                  !.hasRateLimit = TRUE]
                        /\ ev'.fetches = 1
                   ELSE /\ ev'.done /\ ~isLoading'
                        /\ ev'.yield = batch.totalMatches
          /\ (ev'.done /\ ev'.limited /\ ev'.yield = 0) =>
                ev'.branch \in {"ratelimited", "empty"}]_vars

\* The batch of the example: one league rate limited, the Bundesliga's
\* three matches of the day are the whole output.
C11_Witness ==
    /\ ev.op = "resp" /\ ev.done /\ ev.limited /\ ev.branch = "fresh"
    /\ Len(cachedMatches) = 3 /\ ev.yield = 3
    /\ \A k \in 1..3 : cachedMatches[k].league = "Bundesliga"
    /\ display.list = cachedMatches

\* A response that is not a success with a readable body.
failed(e) == e.kind # "ok" \/ e.caught

\* C12: a call that passes the guard without serving the cache starts its
\* batch at the first league; every response, whatever its outcome, is
\* that of the league whose turn it is and is followed by the request for
\* the next league, or by the end of the batch after the last one, so each
\* league is attempted once and in turn. A failing league adds no match,
\* and what the leagues before it added stays in the batch up to its end.
C12_EveryLeagueAttemptedOnce ==
    [][/\ (~batch.active /\ batch'.active) =>
             /\ batch'.i = 1 /\ batch'.allMatches = <<>>
             /\ ev'.fetches = 1
       /\ fetchStep =>
             /\ ev'.league = leagues[batch.i]
             /\ IF batch.i < Len(leagues)
                THEN /\ batch'.active /\ batch'.i = batch.i + 1
                     /\ ev'.fetches = 1
                     /\ batch'.allMatches = batch.allMatches \o ev'.out
                     /\ batch'.totalMatches = Len(batch'.allMatches)
                ELSE /\ ~batch'.active /\ ev'.done /\ ev'.fetches = 0
                     /\ ev'.yield = Len(batch.allMatches \o ev'.out)
                     /\ ev'.yield > 0 =>
                           cachedMatches' = batch.allMatches \o ev'.out
             /\ failed(ev') => ev'.out = <<>>]_vars

\* The last league fails on the network after the first two delivered.
C12_Witness ==
    /\ ev.op = "resp" /\ ev.done /\ ev.league = "PD" /\ ev.kind = "netfail"
    /\ ev.caught /\ ev.out = <<>>
    /\ Len(cachedMatches) = 4 /\ cachedMatches[1].league = "Premier League"
    /\ cachedMatches[4].league = "Bundesliga"

C14_CacheWrittenOnlyAtBatchEnd ==
    [][(batch.active /\ cacheFields' # cacheFields) =>
          /\ batch.i = Len(leagues)
          /\ ev'.op = "resp" /\ ev'.done /\ ev'.yield > 0]_vars

\* C15: every match aggregated by the batch in flight has its kickoff on
\* the batch's today, and every cached match has its kickoff on cachedDate,
\* the today of the batch that stored it.
C15_CacheHoldsOnlyTodaysMatches ==
    /\ \A k \in 1..Len(batch.allMatches) :
          londonYMD(batch.allMatches[k].date) = batch.today
    /\ \A k \in 1..Len(cachedMatches) :
          londonYMD(cachedMatches[k].date) = cachedDate

\* On the second day the Bundesliga answered with the three fixtures of
\* the day before and one of the day: only that one was stored.
C15_Witness ==
    /\ ev.op = "resp" /\ ev.done /\ ev.branch = "fresh"
    /\ cachedDate = londonYMD(KickoffB)
    /\ Len(cachedMatches) = 1 /\ cachedMatches[1].date = KickoffB
    /\ cachedMatches[1].league = "Bundesliga"

\* A step of FetchSpec in which a league's body was read and reconciled.
reconcileStep == fetchStep /\ ev'.kind = "ok" /\ ~ev'.caught

\* The matches of a response that pass the date filter of a batch.
ofTheDay(raw, today) ==
    LET isToday(m) == londonYMD(m.utcDate) = today
    IN  SelectSeq(raw, isToday)

bothReported(m) == m.home # Null /\ m.away # Null

\* The positions among the first n of the list fd at which both scores of
\* the match id X were reported.
reportedUpTo(fd, n, X) ==
    {j \in 1..n : matchIdOf(fd[j]) = X /\ bothReported(fd[j])}

everRecorded(fd, n, X, scores) ==
    reportedUpTo(fd, n, X) # {} \/ X \in DOMAIN scores

\* The pair most recently recorded for X once the first n matches of fd
\* have been reconciled, scores being the record before the list; the
\* unknown marker twice when there is none.
recordedPair(fd, n, X, scores) ==
    LET J == reportedUpTo(fd, n, X)
    IN  IF J # {}
        THEN LET j == CHOOSE x \in J : \A y \in J : y <= x
             IN  <<fd[j].home, fd[j].away>>
        ELSE IF X \in DOMAIN scores THEN scores[X]
        ELSE <<Dash, Dash>>

\* C16: a match reported with both scores shows them verbatim and they
\* become the pair recorded for its id; a match with a score missing shows
\* the pair most recently recorded for its id, or the unknown marker for
\* both when none was ever recorded; nothing else is recorded.
C16_ScoreFallback ==
    [][reconcileStep =>
          LET fd == ofTheDay(ev'.raw, batch.today)
          IN  /\ Len(ev'.out) = Len(fd)
              /\ \A k \in 1..Len(fd) :
                    LET shown == <<ev'.out[k].goalsHome, ev'.out[k].goalsAway>>
                    IN  IF bothReported(fd[k])
                        THEN shown = <<fd[k].home, fd[k].away>>
                        ELSE shown = recordedPair(fd, k - 1, matchIdOf(fd[k]),
                                                  lastKnownScores)
              /\ \A X \in {matchIdOf(fd[k]) : k \in 1..Len(fd)}
                           \cup DOMAIN lastKnownScores :
                    IF everRecorded(fd, Len(fd), X, lastKnownScores)
                    THEN /\ X \in DOMAIN lastKnownScores'
                         /\ lastKnownScores'[X] =
                              recordedPair(fd, Len(fd), X, lastKnownScores)
                    ELSE X \notin DOMAIN lastKnownScores']_vars

\* The example: 2-1 is on record for "101", the provider sends the match
\* with its away score missing, and 2-1 is shown.
C16_Witness ==
    /\ ev.op = "resp" /\ ev.kind = "ok" /\ Len(ev.raw) = 1
    /\ ev.raw[1].id = "101"
    /\ ev.raw[1].home = Null /\ ev.raw[1].away = Null
    /\ Len(ev.out) = 1
    /\ ev.out[1].goalsHome = 2 /\ ev.out[1].goalsAway = 1
    /\ lastKnownScores["101"] = <<2, 1>>

\* Both scores known, or both the unknown marker.
wholePair(x) ==
    \/ x.goalsHome \in Nat /\ x.goalsAway \in Nat
    \/ x.goalsHome = Dash /\ x.goalsAway = Dash

\* C17: in every match of the batch in flight, of the cache and of the
\* rendered list the two scores are both known integers or both the
\* unknown marker.
C17_ScoresNeverHalfKnown ==
    /\ \A k \in 1..Len(batch.allMatches) : wholePair(batch.allMatches[k])
    /\ \A k \in 1..Len(cachedMatches) : wholePair(cachedMatches[k])
    /\ \A k \in 1..Len(display.list) : wholePair(display.list[k])

\* The provider sent a home score without an away score for a match with
\* nothing on record: both are shown as unknown.
C17_Witness ==
    /\ ev.op = "resp" /\ ev.kind = "ok" /\ batch.active
    /\ Len(ev.raw) = 1 /\ ev.raw[1].home = 2 /\ ev.raw[1].away = Null
    /\ Len(batch.allMatches) = 1
    /\ batch.allMatches[1].goalsHome = Dash
    /\ batch.allMatches[1].goalsAway = Dash

\* C18: when a match whose id has a status on record (always a status
\* other than "NS") is reported with a blank or unmapped status code, the
\* reconciled match carries the status on record.
C18_RecordedStatusNotRegressed ==
    [][reconcileStep =>
          LET fd == ofTheDay(ev'.raw, batch.today)
          IN  \A k \in 1..Len(fd) :
                LET X == matchIdOf(fd[k])
                IN  (/\ fd[k].status \notin DOMAIN STATUS_MAP
                     /\ X \in DOMAIN lastKnownStatus
                     /\ \A j \in 1..(k - 1) : matchIdOf(fd[j]) # X)
                    => /\ ev'.out[k].status = lastKnownStatus[X]
                       /\ ev'.out[k].status # "NS"]_vars

\* The seven short codes of the program.
canonicalStatuses == {"NS", "LIVE", "HT", "FT", "PST", "CANC", "SUSP"}

\* C19: the status of every match of the batch in flight, of the cache and
\* of the rendered list is one of the seven short codes, and so is every
\* status on record.
C19_StatusIsCanonical ==
    /\ \A k \in 1..Len(batch.allMatches) :
          batch.allMatches[k].status \in canonicalStatuses
    /\ \A k \in 1..Len(cachedMatches) :
          cachedMatches[k].status \in canonicalStatuses
    /\ \A k \in 1..Len(display.list) :
          display.list[k].status \in canonicalStatuses
    /\ \A X \in DOMAIN lastKnownStatus :
          lastKnownStatus[X] \in canonicalStatuses

\* C20: reconciling a league's matches of the day once more, against the
\* last-known maps as the first reconciliation left them, gives the list
\* the first reconciliation gave.
C20_ReconcileIdempotent ==
    [][reconcileStep =>
          normalizeAll(ofTheDay(ev'.raw, batch.today), ev'.league,
                       lastKnownScores', lastKnownStatus').out
          = ev'.out]_vars

\* The score and the status of a reconciled match.
derived(x) == <<x.goalsHome, x.goalsAway, x.status>>

\* C21: what reconciliation derives for a match A of a league's list is
\* what it derives for A alone, and it is the same whether another match B
\* of the list stands before A, after A, or is absent.
C21_ReconcileOrderIndependent ==
    [][reconcileStep =>
          LET fd == ofTheDay(ev'.raw, batch.today)
              run(ms) == normalizeAll(ms, ev'.league, lastKnownScores,
                                      lastKnownStatus).out
          IN  \A k \in 1..Len(fd) :
                /\ derived(ev'.out[k]) = derived(run(<<fd[k]>>)[1])
                /\ \A j \in 1..Len(fd) \ {k} :
                      /\ derived(run(<<fd[j], fd[k]>>)[2])
                           = derived(run(<<fd[k]>>)[1])
                      /\ derived(run(<<fd[k], fd[j]>>)[1])
                           = derived(run(<<fd[k]>>)[1])]_vars

\* A step in which a tick runs its part after the await of line 645: a
\* timer or one-shot tick whose load was skipped or served the cache, the
\* last response of a batch that a tick started, or the last response of
\* the initial batch when the first tick is then served the fresh cache.
tickCompletes ==
    \/ ev'.op \in {"tick", "kickoff"} /\ (ev'.skipped \/ ev'.reuse)
    \/ /\ ev'.op = "resp" /\ ev'.done
       /\ \/ batch.caller = "tick"
          \/ batch.caller = "init" /\ ev'.reuse

\* A cached match is live or at half time.
someLive(ms) == \E k \in 1..Len(ms) : ms[k].status \in {"LIVE", "HT"}

\* The kickoffs, at most three minutes ahead of t, of the cached matches
\* that have not started.
imminent(ms, t) ==
    {ms[k].date : k \in {j \in 1..Len(ms) :
                            /\ ms[j].status = "NS"
                            /\ ms[j].date >= t
                            /\ ms[j].date <= t + KickoffWindow}}

\* C22: after a tick that completes with a non-empty cache the interval
\* selected is one minute when a cached match is live or at half time or a
\* cached match that has not started kicks off within three minutes, and
\* five minutes otherwise.
C22_IntervalSelection ==
    [][(tickCompletes /\ cachedMatches' # <<>>) =>
          currentIntervalMs' =
              IF someLive(cachedMatches') \/ imminent(cachedMatches', now') # {}
              THEN FastMs ELSE SlowMs]_vars

\* A tick served by the cache chose one minute for a kickoff that is near,
\* with no match live.
C22_Witness ==
    /\ ev.op = "tick" /\ ev.reuse /\ cachedMatches # <<>>
    /\ ~someLive(cachedMatches) /\ imminent(cachedMatches, now) # {}
    /\ currentIntervalMs = FastMs

\* The pending recurring timers with handle h.
recurring(ts, h) == {t \in ts : t.kind = "interval" /\ t.h = h}

\* A step in which tick reaches adjustInterval (line 664).
rearms == tickCompletes /\ cachedMatches' # <<>>

\* C23: when tick re-arms with the interval value in force while the timer
\* is running, the timer keeps its handle, its period and its next firing
\* time (moved on by one period if the step is its own firing); when the
\* value changes, a timer of the new period is created, due one period
\* from now.
C23_SameIntervalIsNoOp ==
    [][rearms =>
          /\ (/\ currentIntervalMs' = currentIntervalMs
              /\ recurring(timers, autoRefreshInterval) # {})
             => /\ autoRefreshInterval' = autoRefreshInterval
                /\ \A t \in recurring(timers, autoRefreshInterval) :
                      \E u \in recurring(timers', autoRefreshInterval) :
                          /\ u.ms = t.ms
                          /\ u.due = IF ev'.op = "tick" /\ t.due <= now
                                     THEN t.due + t.ms ELSE t.due
          /\ currentIntervalMs' # currentIntervalMs
             => /\ recurring(timers', autoRefreshInterval')
                     = {[kind |-> "interval", h |-> autoRefreshInterval',
                         due |-> now' + currentIntervalMs',
                         ms |-> currentIntervalMs']}
                /\ \A t \in recurring(timers, autoRefreshInterval) :
                      t \notin timers']_vars

\* A tick of the kickoff one-shot, served by the cache between two firings
\* of the recurring timer, selects the interval in force: the timer still
\* fires when it was due to.
C23_Witness ==
    /\ ev.op = "kickoff" /\ ev.reuse /\ cachedMatches # <<>>
    /\ \E t \in recurring(timers, autoRefreshInterval) :
          /\ t.ms = currentIntervalMs
          /\ t.due < now + t.ms /\ t.due > now

\* The pending one-shots.
oneShots(ts) == {t \in ts : t.kind = "timeout"}

\* The kickoffs of imminent(ms, t) that are still ahead of t.
imminentAhead(ms, t) == {d \in imminent(ms, t) : d > t}

\* C24: after a tick that completes with a non-empty cache, a one-shot is
\* pending exactly when a cached match that has not started kicks off
\* within the next three minutes; there is one only, it is the one whose
\* handle is stored, and it is due at the earliest such kickoff.
C24_OneShotAtEarliestKickoff ==
    [][rearms =>
          LET ahead == imminentAhead(cachedMatches', now')
          IN  IF ahead = {} THEN oneShots(timers') = {}
              ELSE oneShots(timers') =
                      {[kind |-> "timeout", h |-> kickoffTimeout',
                        due |-> CHOOSE d \in ahead : \A e \in ahead : d <= e,
                        ms |-> 0]}]_vars

\* The first tick, served by the cache the initial batch stored: two
\* matches that have not started are cached, the second one listed kicks
\* off first, and the one-shot is due at its kickoff.
C24_Witness ==
    /\ ev.op = "resp" /\ ev.done /\ ev.reuse
    /\ Len(cachedMatches) = 2
    /\ imminentAhead(cachedMatches, now) = {KickoffA, KickoffC}
    /\ cachedMatches[1].date = KickoffC
    /\ \E t \in oneShots(timers) : t.due = KickoffA /\ t.h = kickoffTimeout

\* C25: a kickoff one-shot that fires at the instant at which a batch has
\* just ended (the step before it, no time in between), whatever the batch
\* yielded, does nothing; one that finds no batch ended within the last 30
\* seconds runs tick.
C25_OneShotSkippedAfterRecentBatch ==
    [][(ev.op = "resp" /\ ev.done /\ ev'.op = "kickoff") => ev'.recent]_vars

\* C26: a kickoff one-shot that fires while no batch is in flight and that
\* the 30-second rule does not skip issues the first request of a batch.
C26_OneShotFetches ==
    [][(~isLoading /\ ev'.op = "kickoff" /\ ~ev'.recent) =>
          ev'.fetches = 1 /\ batch'.active]_vars

\* C27: when a tick completes with an empty cache, whatever made the batch
\* yield nothing, the tick takes its stopping branch and no recurring timer
\* and no one-shot is pending after it.
C27_EmptyCacheStopsTimers ==
    [][(tickCompletes /\ cachedMatches' = <<>>) =>
          ev'.stopped /\ timers' = {}]_vars

\* The batch of a tick of the day after a rollover ended empty: the timer
\* that fired the tick is gone.
C27_Witness ==
    /\ ev.op = "resp" /\ ev.done /\ ev.stopped /\ ev.branch = "empty"
    /\ rolledFrom # EmptyDate /\ rolledFrom < londonYMD(now)
    /\ cachedMatches = <<>> /\ timers = {}
    /\ autoRefreshInterval # Undefined

\* C28: when the scheduler has stopped (the app is running, no timer is
\* pending and no tick is in flight), a manual refresh whose batch ends
\* with matches for today leaves a recurring timer pending.
C28_ManualRefreshRestartsScheduler ==
    [][(/\ phase = "running" /\ timers = {}
        /\ batch.active /\ batch.caller = "click"
        /\ ev'.op = "resp" /\ ev'.done /\ ev'.yield > 0)
       => \E t \in timers' : t.kind = "interval"]_vars

\* C29: after a tick that completes with a non-empty cache a recurring
\* timer with the stored handle and the selected period is pending.
C29_CompletedTickLeavesTimerArmed ==
    [][rearms =>
          \E t \in recurring(timers', autoRefreshInterval') :
              t.ms = currentIntervalMs']_vars

\* C30: when the key supplied is missing, empty or only whitespace, start-up
\* shows the empty state, issues no request and arms no timer, and from then
\* on no step issues a request, arms a timer or leaves that state.
blankKey(k) == ~k.present \/ \A i \in 1..Len(k.text) : k.text[i] = " "

idle ==
    /\ phase' = "nokey"
    /\ display'.popup
    /\ ev'.fetches = 0
    /\ ~batch'.active
    /\ ~isLoading'
    /\ timers' = {}
    /\ autoRefreshInterval' = Undefined
    /\ kickoffTimeout' = Undefined

C30_BlankKeyNeverFetches ==
    [][/\ (ev'.op = "init" /\ blankKey(ev'.key)) => idle
       /\ phase = "nokey" => idle]_vars

C30_Witness ==
    /\ phase = "nokey"
    /\ ev.op = "init"
    /\ ev.key = [present |-> TRUE, text |-> <<" ">>]
    /\ display.popup
    /\ timers = {}

\* C31: in every step each call that ends has rendered exactly once and a
\* call that has not ended has rendered nothing; the render is the match
\* list on reuse, fresh fetch and stale serving and the empty state
\* otherwise; and a rendered list is the cache as it is at that moment.
C31_OneRenderPerCall ==
    [][phase' # "nokey" =>
          /\ ev'.renders = ev'.ended
          /\ ev'.ended > 0 =>
                /\ ev'.render \in {"matches", "empty"}
                /\ (ev'.render = "matches")
                      = (ev'.branch \in {"reuse", "fresh", "ratelimited",
                                         "stale"})
                /\ ev'.render = "matches" =>
                      display' = [popup |-> FALSE, list |-> cachedMatches']
                /\ ev'.render = "empty" => display'.popup]_vars

C31_Witness ==
    /\ ev.ended = 1
    /\ ev.branch = "ratelimited"
    /\ ev.renders = 1
    /\ cachedMatches # <<>>
    /\ display = [popup |-> FALSE, list |-> cachedMatches]

\* C32: a recurring tick that fires at the fast interval while a cached
\* match is LIVE or HT, and is neither skipped by the guard nor a day
\* rollover, starts a fetch batch.
C32_LiveTickFetches ==
    [][(/\ ev'.op = "tick"
        /\ currentIntervalMs = FastMs
        /\ someLive(cachedMatches)
        /\ ~ev'.rollover
        /\ ~ev'.skipped) => ev'.fetches = 1]_vars

cacheConsistent ==
    /\ (cachedMatches = <<>>) = (cachedDate = EmptyDate)
    /\ (cachedMatches = <<>>) = (lastFetchTime = 0)

C34_CacheFieldsConsistent ==
    /\ []cacheConsistent
    /\ [][cacheFields' # cacheFields =>
            \/ /\ ev'.writes > 0
               /\ cachedMatches' # <<>>
               /\ cachedDate' = todayLondonISO(lastFetchTime')
               /\ lastFetchTime' > 0
            \/ /\ ev'.rollover
               /\ cacheFields' = <<<<>>, EmptyDate, 0>>]_vars

C34_Witness ==
    /\ ev.rollover
    /\ rolledFrom # EmptyDate
    /\ ev.prev # <<>>
    /\ cacheFields = <<<<>>, EmptyDate, 0>>
    /\ lastKnownStatus # <<>>

\* C35: a batch collects each league's matches behind those of the leagues
\* before it, and when it ends with at least one match the cache is exactly
\* that collection, dated with the day and the instant read when the batch
\* started, whether or not a league was rate-limited or failed.
collected == batch.allMatches \o ev'.out

C35_CacheReplacedWholesale ==
    [][fetchStep =>
          /\ ev'.ended = 0 => batch'.allMatches = collected
          /\ (ev'.ended > 0 /\ collected # <<>>) =>
                /\ ev'.branch = "fresh"
                /\ cachedMatches' = collected
                /\ cachedDate' = batch.today
                /\ lastFetchTime' = batch.now]_vars

\* A batch in which a league was rate-limited has replaced a cache entry
\* that held Bundesliga matches by Premier League matches alone.
C35_Witness ==
    /\ ev.op = "resp"
    /\ ev.branch = "fresh"
    /\ ev.limited
    /\ "202" \in DOMAIN lastKnownStatus
    /\ lastCycle.start > T0
    /\ \A k \in 1..Len(cachedMatches) :
          cachedMatches[k].league = "Premier League"

\* C36: a call that ends by rendering the cache, on the reuse path or on
\* one of the two stale paths, renders an entry whose cachedDate is the
\* London date of that moment.
servesCache ==
    /\ ev'.ended > 0
    /\ ev'.render = "matches"
    /\ ev'.branch \in {"reuse", "ratelimited", "stale"}

C36_RenderedCacheIsOfToday ==
    [][servesCache => cachedDate' = todayLondonISO(now')]_vars

\* C37: every pair on record in lastKnownScores consists of two reported
\* scores, neither missing nor the unknown marker, and every status on
\* record in lastKnownStatus is one of the short codes other than "NS".
C37_OnlyKnownValuesOnRecord ==
    /\ \A X \in DOMAIN lastKnownScores :
          /\ lastKnownScores[X][1] \notin {Null, Dash}
          /\ lastKnownScores[X][2] \notin {Null, Dash}
    /\ \A X \in DOMAIN lastKnownStatus :
          lastKnownStatus[X] \in canonicalStatuses \ {"NS"}

\* C38: at most one recurring timer and at most one kickoff one-shot are
\* pending, and a pending timer is the one whose handle the scheduler
\* stores for its kind: no timer of an earlier schedule is left to fire.
C38_OneTimerPerKind ==
    /\ Cardinality({t \in timers : t.kind = "interval"}) <= 1
    /\ Cardinality({t \in timers : t.kind = "timeout"}) <= 1
    /\ \A t \in timers :
          t.h = IF t.kind = "interval" THEN autoRefreshInterval
                ELSE kickoffTimeout

\* After a day rollover both timers are pending again.
C38_Witness ==
    /\ rolledFrom # EmptyDate
    /\ \E t \in timers : t.kind = "interval" /\ t.h = autoRefreshInterval
    /\ \E t \in timers : t.kind = "timeout" /\ t.h = kickoffTimeout
    /\ Cardinality(timers) = 2

\* C39: the end date of the query window of the batch in flight is the day
\* after its start date.
C39_WindowEndsNextDay ==
    batch.active => batch.tomorrow = batch.today + 1

====
